---- MODULE Spec2Model ----
(***************************************************************************)
(* Model of src/src/ch.rs, module tx_rx_channel: a blocking multi-producer *)
(* single-consumer channel built from Arc<SharedInner>, a Mutex around     *)
(* SharedInnerMut {msg_queue, sender_cnt, receiver_live} and the Condvar   *)
(* recv_wakeup_flag.                                                       *)
(*                                                                         *)
(* Every Sender handle is owned by one thread, which runs one operation on *)
(* it at a time (drop needs ownership, so nothing else runs on a handle    *)
(* that is being dropped).  The Receiver is owned by the thread Rx.  Each  *)
(* Mutex::lock(), each critical section and each Condvar call is a step of *)
(* its own, so every interleaving of the code's statements is a behaviour. *)
(***************************************************************************)
EXTENDS Integers, Sequences, FiniteSets, TLC

\* ------------------------------------------------------------- bounds
\* Sender handles that can ever exist (the original and its clones).
MaxHandles == 2
\* send calls made over the life of the channel.
MaxSends == 2
\* Spurious returns of Condvar::wait over the life of the channel.
MaxSpurious == 1

\* Threads that share one chennel_only_channel::Channel.
MaxChThreads == 2
MaxAppends == 3

\* The values of T that are sent.
Values == {"a", "b"}

Handles == 1..MaxHandles
\* The thread that owns the Receiver (the Sender threads are named by handle).
Rx == 0
Threads == Handles \cup {Rx}
\* The threads that call send and recv on the one Channel they share.
ChThreads == 1..MaxChThreads

VARIABLES
    msg_queue,          \* SharedInnerMut.msg_queue: VecDeque<T>
    sender_cnt,         \* SharedInnerMut.sender_cnt: usize
    receiver_live,      \* SharedInnerMut.receiver_live: bool
    inner_mut_data,     \* the Mutex: the set of threads holding its guard
    recv_wakeup_flag,   \* the Condvar: the set of threads blocked in wait()
    tx_pc,              \* per Sender handle: where its thread is
    tx_value,           \* per Sender handle: the argument of the send in progress
    tx_result,          \* what the last send to return returned
    rx_pc,              \* where the Receiver's thread is
    rx_result,          \* what the last recv returned
    sent_log,           \* history: the values pushed, in push order
    recv_log,           \* history: the values recv returned as Ok, in order
    spurious,           \* history: spurious wakeups so far
    tx_after_close,     \* history: the handles whose send in progress was called
                        \* after the Receiver had been dropped
    \* chennel_only_channel::Channel
    ch_msg_queue,       \* Channel.msg_queue: the VecDeque<T> inside the Mutex
    ch_guard,           \* the Mutex of Channel.msg_queue: the threads holding its guard
    ch_wakeup_flag,     \* Channel.recv_wakeup_flag: the threads blocked in wait()
    ch_pc,              \* per thread: where it is in Channel::send or Channel::recv
    ch_value,           \* per thread: the argument of its send in progress
    ch_sent_log,        \* history: the values pushed, in push order
    ch_recv_log,        \* history: the values Channel::recv returned, in pop order
    ch_spurious,        \* history: spurious wakeups so far
    \* mut_single_linked_list::LinkedList and the iterator made from it
    ll_head,            \* LinkedList.head: Link<T>
    ll_op,              \* the last operation called
    ll_ret,             \* what the last operation returned
    ll_appended,        \* history: the values appended, in call order
    ll_popped,          \* history: the positions in ll_appended already popped
    it_kind,            \* the iterator alive: "none", "iter", "iter_mut", "into_iter"
    it_next,            \* LinkedListIter.next_item / LinkedListIterMut.next_item
    it_yielded,         \* history: the items next() has yielded as Some, in order
    it_done,            \* next() has returned None
    it_at_creation      \* history: the list's elements when the iterator was made

\* The state of the tx_rx_channel, of the Channel, and of the LinkedList.
chan_vars == <<msg_queue, sender_cnt, receiver_live, inner_mut_data, recv_wakeup_flag,
               tx_pc, tx_value, tx_result, rx_pc, rx_result, sent_log, recv_log, spurious,
               tx_after_close>>
ch_vars == <<ch_msg_queue, ch_guard, ch_wakeup_flag, ch_pc, ch_value, ch_sent_log,
             ch_recv_log, ch_spurious>>

\* What a step of the tx_rx_channel, of the Channel and of the LinkedList leaves
\* alone: the other objects.
ll_vars == <<ll_head, ll_op, ll_ret, ll_appended, ll_popped, it_kind, it_next,
             it_yielded, it_done, it_at_creation>>
not_chan == <<ch_vars, ll_vars>>
not_ch == <<chan_vars, ll_vars>>
not_ll == <<chan_vars, ch_vars>>

vars == <<chan_vars, ch_vars, ll_vars>>

shared == <<msg_queue, sender_cnt, receiver_live>>
tx_vars == <<tx_pc, tx_value, tx_result>>
rx_vars == <<rx_pc, rx_result>>
logs == <<sent_log, recv_log, tx_after_close>>

\* ------------------------------------------------------------ results
NoResult == [tag |-> "None", val |-> "-"]
OkUnit == [tag |-> "Ok", val |-> "-"]
Ok(v) == [tag |-> "Ok", val |-> v]
NoMoreReceiverErr(v) == [tag |-> "Err", val |-> v]
NoMoreSenderErr == [tag |-> "Err", val |-> "-"]
\* Option<T>
None == [tag |-> "None", val |-> "-"]
Some(v) == [tag |-> "Some", val |-> v]

\* ------------------------------------------------- the library pieces
\* usize arithmetic of sender_cnt, in the residues of 2^64 nearest 0: -1 stands
\* for usize::MAX, what `0 - 1` wraps to in a release build (a debug build panics).
UsizeInc(n) == n + 1
UsizeDec(n) == n - 1

\* VecDeque::push_back and VecDeque::pop_front.
push_back_front(q, v) == <<v>> \o q
push_back(q, v) == Append(q, v)
pop_front_wrong(q) == [msg |-> q[Len(q)], rest |-> SubSeq(q, 1, Len(q) - 1)]
pop_front(q) == [msg |-> Head(q), rest |-> Tail(q)]

\* Condvar::notify_one: one blocked thread, if any, leaves the wait set.
notify_one(waiters) ==
    IF waiters = {} THEN {} ELSE waiters \ {CHOOSE t \in waiters : TRUE}

\* Mutex::lock succeeds when no guard is out; the thread that takes the guard
\* joins inner_mut_data and leaves it when the guard is dropped.
CanLock_Always == TRUE
CanLock == inner_mut_data = {}

\* ---------------------------------------------------------------- Init
\* Channel::new(): an empty queue, nobody in send or recv.
\* type Link<T> = Option<Box<Node<T>>>: <<>> is None and <<node>> is
\* Some(Box::new(node)), a node being [data, next] with next a Link.
LinkNone == <<>>
LinkSome(node) == <<node>>
Node(data, next) == [data |-> data, next |-> next]

\* LinkedList::peek on a list whose head is head: what it returns.
ll_peek(head) ==
    IF head = LinkNone THEN None ELSE Some(head[1].data)

\* LinkedList::append(value) on a list whose head is head: the new head.
ll_append_drops_rest(head, value) == LinkSome(Node(value, LinkNone))
ll_append(head, value) == LinkSome(Node(value, head))

\* LinkedList::pop_front on a list whose head is head: what it returns, and
\* the new head.
ll_pop_front(head) ==
    IF head = LinkNone
    THEN [ret |-> None, head |-> LinkNone]
    ELSE [ret |-> Some(head[1].data), head |-> head[1].next]

\* The elements of the list that starts at link, head first.
RECURSIVE Elements(_)
Elements(link) ==
    IF link = LinkNone THEN <<>> ELSE <<link[1].data>> \o Elements(link[1].next)

\* The positions of ll_appended not popped yet, and the latest of a set of them.
Unpopped == (1..Len(ll_appended)) \ ll_popped
Latest(idx) == CHOOSE m \in idx : \A k \in idx : k <= m

\* An empty LinkedList (head: None), and no iterator.
ListNew ==
    /\ ll_head = LinkNone
    /\ ll_op = "new"
    /\ ll_ret = None
    /\ ll_appended = <<>>
    /\ ll_popped = {}
    /\ it_kind = "none"
    /\ it_next = LinkNone
    /\ it_yielded = <<>>
    /\ it_done = FALSE
    /\ it_at_creation = <<>>

ChannelNew ==
    /\ ch_msg_queue = <<>>
    /\ ch_guard = {}
    /\ ch_wakeup_flag = {}
    /\ ch_pc = [t \in ChThreads |-> "idle"]
    /\ ch_value = [t \in ChThreads |-> "-"]
    /\ ch_sent_log = <<>>
    /\ ch_recv_log = <<>>
    /\ ch_spurious = 0

\* channel(): SharedInnerMut::new() and one Sender (handle 1) and the Receiver.
Init_CountFromZero ==
    /\ msg_queue = <<>>
    /\ sender_cnt = 0
    /\ receiver_live = TRUE
    /\ inner_mut_data = {}
    /\ recv_wakeup_flag = {}
    /\ tx_pc = [h \in Handles |-> IF h = 1 THEN "idle" ELSE "unborn"]
    /\ tx_value = [h \in Handles |-> "-"]
    /\ tx_result = NoResult
    /\ rx_pc = "idle"
    /\ rx_result = NoResult
    /\ sent_log = <<>>
    /\ recv_log = <<>>
    /\ spurious = 0
    /\ tx_after_close = {}
    /\ ChannelNew
    /\ ListNew

Init ==
    /\ msg_queue = <<>>
    /\ sender_cnt = 1
    /\ receiver_live = TRUE
    /\ inner_mut_data = {}
    /\ recv_wakeup_flag = {}
    /\ tx_pc = [h \in Handles |-> IF h = 1 THEN "idle" ELSE "unborn"]
    /\ tx_value = [h \in Handles |-> "-"]
    /\ tx_result = NoResult
    /\ rx_pc = "idle"
    /\ rx_result = NoResult
    /\ sent_log = <<>>
    /\ recv_log = <<>>
    /\ spurious = 0
    /\ tx_after_close = {}
    /\ ChannelNew
    /\ ListNew

\* --------------------------------------------------------- Sender::send
\* The sends begun so far: the pushes done and the sends not yet at their push.
SendsBegun ==
    Len(sent_log) + Cardinality({h \in Handles : tx_pc[h] \in {"send_lock", "send_push"}})

\* The owner of handle h calls send(v).
SendCall(h, v) ==
    /\ tx_pc[h] = "idle"
    /\ SendsBegun < MaxSends
    /\ tx_pc' = [tx_pc EXCEPT ![h] = "send_lock"]
    /\ tx_value' = [tx_value EXCEPT ![h] = v]
    /\ tx_after_close' = IF rx_pc = "dropped" THEN tx_after_close \cup {h} ELSE tx_after_close
    /\ UNCHANGED <<shared, inner_mut_data, recv_wakeup_flag, tx_result, rx_vars,
                   sent_log, recv_log, spurious, not_chan>>

\* inner_mut_data.lock().unwrap()
SendLock(h) ==
    /\ tx_pc[h] = "send_lock"
    /\ CanLock
    /\ inner_mut_data' = inner_mut_data \cup {h}
    /\ tx_pc' = [tx_pc EXCEPT ![h] = "send_push"]
    /\ UNCHANGED <<shared, recv_wakeup_flag, tx_value, tx_result, rx_vars, logs,
                   spurious, not_chan>>

\* .msg_queue.push_back(value); the temporary guard is dropped with the statement.
SendPush_KeepsGuard(h) ==
    /\ tx_pc[h] = "send_push"
    /\ h \in inner_mut_data
    /\ msg_queue' = push_back(msg_queue, tx_value[h])
    /\ sent_log' = Append(sent_log, tx_value[h])
    /\ tx_pc' = [tx_pc EXCEPT ![h] = "send_notify"]
    /\ UNCHANGED <<sender_cnt, receiver_live, inner_mut_data, recv_wakeup_flag,
                   tx_value, tx_result, rx_vars, recv_log, spurious, tx_after_close, not_chan>>

SendPush(h) ==
    /\ tx_pc[h] = "send_push"
    /\ h \in inner_mut_data
    /\ msg_queue' = push_back(msg_queue, tx_value[h])
    /\ sent_log' = Append(sent_log, tx_value[h])
    /\ inner_mut_data' = inner_mut_data \ {h}
    /\ tx_pc' = [tx_pc EXCEPT ![h] = "send_notify"]
    /\ UNCHANGED <<sender_cnt, receiver_live, recv_wakeup_flag, tx_value, tx_result,
                   rx_vars, recv_log, spurious, tx_after_close, not_chan>>

\* recv_wakeup_flag.notify_one(); Ok(())
SendNotify_NoWake(h) ==
    /\ tx_pc[h] = "send_notify"
    /\ tx_pc' = [tx_pc EXCEPT ![h] = "idle"]
    /\ tx_value' = [tx_value EXCEPT ![h] = "-"]
    /\ tx_result' = OkUnit
    /\ tx_after_close' = tx_after_close \ {h}
    /\ UNCHANGED <<shared, inner_mut_data, recv_wakeup_flag, rx_vars, sent_log, recv_log,
                   spurious, not_chan>>

SendNotify(h) ==
    /\ tx_pc[h] = "send_notify"
    /\ recv_wakeup_flag' = notify_one(recv_wakeup_flag)
    /\ tx_pc' = [tx_pc EXCEPT ![h] = "idle"]
    /\ tx_value' = [tx_value EXCEPT ![h] = "-"]
    /\ tx_result' = OkUnit
    /\ tx_after_close' = tx_after_close \ {h}
    /\ UNCHANGED <<shared, inner_mut_data, rx_vars, sent_log, recv_log, spurious, not_chan>>

\* ----------------------------------------------------- Clone for Sender
\* Handles that exist or are about to: those born, and the clones being made.
HandlesClaimed ==
    Cardinality({h \in Handles : tx_pc[h] # "unborn"})
    + Cardinality({h \in Handles : tx_pc[h] \in {"clone_lock", "clone_inc", "clone_ret"}})

\* The owner of handle h calls clone().
CloneCall(h) ==
    /\ tx_pc[h] = "idle"
    /\ HandlesClaimed < MaxHandles
    /\ tx_pc' = [tx_pc EXCEPT ![h] = "clone_lock"]
    /\ UNCHANGED <<shared, inner_mut_data, recv_wakeup_flag, tx_value, tx_result,
                   rx_vars, logs, spurious, not_chan>>

\* inner_mut_data.lock().unwrap()
CloneLock(h) ==
    /\ tx_pc[h] = "clone_lock"
    /\ CanLock
    /\ inner_mut_data' = inner_mut_data \cup {h}
    /\ tx_pc' = [tx_pc EXCEPT ![h] = "clone_inc"]
    /\ UNCHANGED <<shared, recv_wakeup_flag, tx_value, tx_result, rx_vars, logs,
                   spurious, not_chan>>

\* .sender_cnt += 1; the temporary guard is dropped with the statement.
CloneInc_NoCount(h) ==
    /\ tx_pc[h] = "clone_inc"
    /\ h \in inner_mut_data
    /\ inner_mut_data' = inner_mut_data \ {h}
    /\ tx_pc' = [tx_pc EXCEPT ![h] = "clone_ret"]
    /\ UNCHANGED <<shared, recv_wakeup_flag, tx_value, tx_result,
                   rx_vars, logs, spurious, not_chan>>

CloneInc(h) ==
    /\ tx_pc[h] = "clone_inc"
    /\ h \in inner_mut_data
    /\ sender_cnt' = UsizeInc(sender_cnt)
    /\ inner_mut_data' = inner_mut_data \ {h}
    /\ tx_pc' = [tx_pc EXCEPT ![h] = "clone_ret"]
    /\ UNCHANGED <<msg_queue, receiver_live, recv_wakeup_flag, tx_value, tx_result,
                   rx_vars, logs, spurious, not_chan>>

\* Sender { shared_inner: Arc::clone(&self.shared_inner) }: the new handle exists.
NewHandle == CHOOSE n \in Handles : tx_pc[n] = "unborn" /\ \A m \in Handles : tx_pc[m] = "unborn" => n <= m

CloneRet(h) ==
    /\ tx_pc[h] = "clone_ret"
    /\ tx_pc' = [tx_pc EXCEPT ![h] = "idle", ![NewHandle] = "idle"]
    /\ UNCHANGED <<shared, inner_mut_data, recv_wakeup_flag, tx_value, tx_result,
                   rx_vars, logs, spurious, not_chan>>

\* ------------------------------------------------------ Drop for Sender
\* The owner of handle h lets it go out of scope.
DropCall(h) ==
    /\ tx_pc[h] = "idle"
    /\ tx_pc' = [tx_pc EXCEPT ![h] = "drop_lock"]
    /\ UNCHANGED <<shared, inner_mut_data, recv_wakeup_flag, tx_value, tx_result,
                   rx_vars, logs, spurious, not_chan>>

\* let mut inner_mut_data_lock = inner_mut_data.lock().unwrap();
DropLock(h) ==
    /\ tx_pc[h] = "drop_lock"
    /\ CanLock
    /\ inner_mut_data' = inner_mut_data \cup {h}
    /\ tx_pc' = [tx_pc EXCEPT ![h] = "drop_dec"]
    /\ UNCHANGED <<shared, recv_wakeup_flag, tx_value, tx_result, rx_vars, logs,
                   spurious, not_chan>>

\* inner_mut_data_lock.sender_cnt -= 1;
DropDec_NoCount(h) ==
    /\ tx_pc[h] = "drop_dec"
    /\ h \in inner_mut_data
    /\ tx_pc' = [tx_pc EXCEPT ![h] = "drop_unlock"]
    /\ UNCHANGED <<shared, inner_mut_data, recv_wakeup_flag,
                   tx_value, tx_result, rx_vars, logs, spurious, not_chan>>

DropDec(h) ==
    /\ tx_pc[h] = "drop_dec"
    /\ h \in inner_mut_data
    /\ sender_cnt' = UsizeDec(sender_cnt)
    /\ tx_pc' = [tx_pc EXCEPT ![h] = "drop_unlock"]
    /\ UNCHANGED <<msg_queue, receiver_live, inner_mut_data, recv_wakeup_flag,
                   tx_value, tx_result, rx_vars, logs, spurious, not_chan>>

\* if sender_cnt == 0 { drop(inner_mut_data_lock); ... } and otherwise the guard
\* is dropped where the function ends.
DropUnlock_NeverNotifies(h) ==
    /\ tx_pc[h] = "drop_unlock"
    /\ h \in inner_mut_data
    /\ inner_mut_data' = inner_mut_data \ {h}
    /\ tx_pc' = [tx_pc EXCEPT ![h] = "dropped"]
    /\ UNCHANGED <<shared, recv_wakeup_flag, tx_value, tx_result, rx_vars, logs,
                   spurious, not_chan>>

DropUnlock(h) ==
    /\ tx_pc[h] = "drop_unlock"
    /\ h \in inner_mut_data
    /\ inner_mut_data' = inner_mut_data \ {h}
    /\ tx_pc' = [tx_pc EXCEPT ![h] = IF sender_cnt = 0 THEN "drop_notify" ELSE "dropped"]
    /\ UNCHANGED <<shared, recv_wakeup_flag, tx_value, tx_result, rx_vars, logs,
                   spurious, not_chan>>

\* recv_wakeup_flag.notify_one();
DropNotify_NoWake(h) ==
    /\ tx_pc[h] = "drop_notify"
    /\ tx_pc' = [tx_pc EXCEPT ![h] = "dropped"]
    /\ UNCHANGED <<shared, inner_mut_data, recv_wakeup_flag, tx_value, tx_result,
                   rx_vars, logs, spurious, not_chan>>

DropNotify(h) ==
    /\ tx_pc[h] = "drop_notify"
    /\ recv_wakeup_flag' = notify_one(recv_wakeup_flag)
    /\ tx_pc' = [tx_pc EXCEPT ![h] = "dropped"]
    /\ UNCHANGED <<shared, inner_mut_data, tx_value, tx_result, rx_vars, logs, spurious,
                   not_chan>>

\* ------------------------------------------------------- Receiver::recv
\* The Receiver's owner calls recv().
RecvCall ==
    /\ rx_pc = "idle"
    /\ rx_pc' = "recv_lock"
    /\ UNCHANGED <<shared, inner_mut_data, recv_wakeup_flag, tx_vars, rx_result, logs,
                   spurious, not_chan>>

\* let mut shared_mut_data_guard = inner_mut_data.lock().unwrap();
RecvLock ==
    /\ rx_pc = "recv_lock"
    /\ CanLock
    /\ inner_mut_data' = inner_mut_data \cup {Rx}
    /\ rx_pc' = "recv_check"
    /\ UNCHANGED <<shared, recv_wakeup_flag, tx_vars, rx_result, logs, spurious, not_chan>>

\* if let Some(msg) = msg_queue.pop_front() { return Ok(msg); }
RecvPop_Peek ==
    /\ rx_pc = "recv_check"
    /\ Rx \in inner_mut_data
    /\ msg_queue # <<>>
    /\ rx_result' = Ok(pop_front(msg_queue).msg)
    /\ recv_log' = Append(recv_log, pop_front(msg_queue).msg)
    /\ inner_mut_data' = inner_mut_data \ {Rx}
    /\ rx_pc' = "idle"
    /\ UNCHANGED <<shared, recv_wakeup_flag, tx_vars, sent_log, spurious, tx_after_close,
                   not_chan>>

RecvPop ==
    /\ rx_pc = "recv_check"
    /\ Rx \in inner_mut_data
    /\ msg_queue # <<>>
    /\ msg_queue' = pop_front(msg_queue).rest
    /\ rx_result' = Ok(pop_front(msg_queue).msg)
    /\ recv_log' = Append(recv_log, pop_front(msg_queue).msg)
    /\ inner_mut_data' = inner_mut_data \ {Rx}
    /\ rx_pc' = "idle"
    /\ UNCHANGED <<sender_cnt, receiver_live, recv_wakeup_flag, tx_vars, sent_log, spurious,
                   tx_after_close, not_chan>>

\* if sender_cnt == 0 { return Err(NoMoreSenderErr) }
RecvErr_CountOnly ==
    /\ rx_pc = "recv_check"
    /\ Rx \in inner_mut_data
    /\ sender_cnt = 0
    /\ rx_result' = NoMoreSenderErr
    /\ inner_mut_data' = inner_mut_data \ {Rx}
    /\ rx_pc' = "idle"
    /\ UNCHANGED <<shared, recv_wakeup_flag, tx_vars, logs, spurious, not_chan>>

RecvErr ==
    /\ rx_pc = "recv_check"
    /\ Rx \in inner_mut_data
    /\ msg_queue = <<>>
    /\ sender_cnt = 0
    /\ rx_result' = NoMoreSenderErr
    /\ inner_mut_data' = inner_mut_data \ {Rx}
    /\ rx_pc' = "idle"
    /\ UNCHANGED <<shared, recv_wakeup_flag, tx_vars, logs, spurious, not_chan>>

\* else { guard = recv_wakeup_flag.wait(guard).unwrap(); }: the guard is released
\* and the thread joins the wait set in one atomic step.
RecvWait_KeepsGuard ==
    /\ rx_pc = "recv_check"
    /\ Rx \in inner_mut_data
    /\ msg_queue = <<>>
    /\ sender_cnt # 0
    /\ recv_wakeup_flag' = recv_wakeup_flag \cup {Rx}
    /\ rx_pc' = "recv_wait"
    /\ UNCHANGED <<shared, inner_mut_data, tx_vars, rx_result, logs, spurious, not_chan>>

RecvWait ==
    /\ rx_pc = "recv_check"
    /\ Rx \in inner_mut_data
    /\ msg_queue = <<>>
    /\ sender_cnt # 0
    /\ inner_mut_data' = inner_mut_data \ {Rx}
    /\ recv_wakeup_flag' = recv_wakeup_flag \cup {Rx}
    /\ rx_pc' = "recv_wait"
    /\ UNCHANGED <<shared, tx_vars, rx_result, logs, spurious, not_chan>>

\* One pass of the loop body of recv, under the guard.
RecvCheck == RecvPop \/ RecvErr \/ RecvWait

\* wait() returns: the thread has left the wait set and takes the guard again.
RecvWake ==
    /\ rx_pc = "recv_wait"
    /\ Rx \notin recv_wakeup_flag
    /\ CanLock
    /\ inner_mut_data' = inner_mut_data \cup {Rx}
    /\ rx_pc' = "recv_check"
    /\ UNCHANGED <<shared, recv_wakeup_flag, tx_vars, rx_result, logs, spurious, not_chan>>

\* Condvar::wait may return without a notification (a spurious wakeup).
SpuriousWake ==
    /\ Rx \in recv_wakeup_flag
    /\ spurious < MaxSpurious
    /\ recv_wakeup_flag' = recv_wakeup_flag \ {Rx}
    /\ spurious' = spurious + 1
    /\ UNCHANGED <<shared, inner_mut_data, tx_vars, rx_vars, logs, not_chan>>

\* The Receiver goes out of scope.  Receiver has no Drop impl: only the Arc is
\* released, and SharedInnerMut is left as it is.
ReceiverDrop ==
    /\ rx_pc = "idle"
    /\ rx_pc' = "dropped"
    /\ UNCHANGED <<shared, inner_mut_data, recv_wakeup_flag, tx_vars, rx_result, logs,
                   spurious, not_chan>>

\* --------------------------------------------- Receiver::tx_unaware_recv
\* The Receiver's owner calls tx_unaware_recv().
URecvCall ==
    /\ rx_pc = "idle"
    /\ rx_pc' = "urecv_lock"
    /\ UNCHANGED <<shared, inner_mut_data, recv_wakeup_flag, tx_vars, rx_result, logs,
                   spurious, not_chan>>

\* let mut shared_mut_data_guard = inner_mut_data.lock().unwrap();
URecvLock ==
    /\ rx_pc = "urecv_lock"
    /\ CanLock
    /\ inner_mut_data' = inner_mut_data \cup {Rx}
    /\ rx_pc' = "urecv_check"
    /\ UNCHANGED <<shared, recv_wakeup_flag, tx_vars, rx_result, logs, spurious, not_chan>>

\* if let Some(msg) = msg_queue.pop_front() { return msg; }
URecvPop ==
    /\ rx_pc = "urecv_check"
    /\ Rx \in inner_mut_data
    /\ msg_queue # <<>>
    /\ msg_queue' = pop_front(msg_queue).rest
    /\ rx_result' = Ok(pop_front(msg_queue).msg)
    /\ recv_log' = Append(recv_log, pop_front(msg_queue).msg)
    /\ inner_mut_data' = inner_mut_data \ {Rx}
    /\ rx_pc' = "idle"
    /\ UNCHANGED <<sender_cnt, receiver_live, recv_wakeup_flag, tx_vars, sent_log, spurious,
                   tx_after_close, not_chan>>

\* guard = recv_wakeup_flag.wait(guard).unwrap(); whatever sender_cnt is.
URecvWait_Aware ==
    \/ /\ rx_pc = "urecv_check"
       /\ Rx \in inner_mut_data
       /\ msg_queue = <<>>
       /\ sender_cnt # 0
       /\ inner_mut_data' = inner_mut_data \ {Rx}
       /\ recv_wakeup_flag' = recv_wakeup_flag \cup {Rx}
       /\ rx_pc' = "urecv_wait"
       /\ UNCHANGED <<shared, tx_vars, rx_result, logs, spurious, not_chan>>
    \/ /\ rx_pc = "urecv_check"
       /\ Rx \in inner_mut_data
       /\ msg_queue = <<>>
       /\ sender_cnt = 0
       /\ inner_mut_data' = inner_mut_data \ {Rx}
       /\ rx_result' = NoMoreSenderErr
       /\ rx_pc' = "idle"
       /\ UNCHANGED <<shared, recv_wakeup_flag, tx_vars, logs, spurious, not_chan>>

URecvWait ==
    /\ rx_pc = "urecv_check"
    /\ Rx \in inner_mut_data
    /\ msg_queue = <<>>
    /\ inner_mut_data' = inner_mut_data \ {Rx}
    /\ recv_wakeup_flag' = recv_wakeup_flag \cup {Rx}
    /\ rx_pc' = "urecv_wait"
    /\ UNCHANGED <<shared, tx_vars, rx_result, logs, spurious, not_chan>>

\* wait() returns: the thread has left the wait set and takes the guard again.
URecvWake ==
    /\ rx_pc = "urecv_wait"
    /\ Rx \notin recv_wakeup_flag
    /\ CanLock
    /\ inner_mut_data' = inner_mut_data \cup {Rx}
    /\ rx_pc' = "urecv_check"
    /\ UNCHANGED <<shared, recv_wakeup_flag, tx_vars, rx_result, logs, spurious, not_chan>>

\* The steps of a tx_unaware_recv already begun.
URxProgress == URecvLock \/ URecvPop \/ URecvWait \/ URecvWake

\* ----------------------------------------------------- the state machine
\* The steps of an operation already begun on handle h.
TxProgress(h) ==
    \/ SendLock(h) \/ SendPush(h) \/ SendNotify(h)
    \/ CloneLock(h) \/ CloneInc(h) \/ CloneRet(h)
    \/ DropLock(h) \/ DropDec(h) \/ DropUnlock(h) \/ DropNotify(h)

\* The steps of a recv already begun.
RxProgress == RecvLock \/ RecvCheck \/ RecvWake

\* The calls the owners of the handles may make.
TxCall(h) == (\E v \in Values : SendCall(h, v)) \/ CloneCall(h) \/ DropCall(h)
RxCall == RecvCall \/ ReceiverDrop

Next ==
    \/ \E h \in Handles : TxCall(h)
    \/ \E h \in Handles : TxProgress(h)
    \/ RxCall
    \/ RxProgress
    \/ SpuriousWake

Spec == Init /\ [][Next]_vars

\* Fair scheduling: a thread inside an operation is not held back forever when its
\* next step stays possible.  Nothing obliges an owner to begin an operation, and
\* nothing obliges a spurious wakeup to happen.
FairSpec ==
    /\ Spec
    /\ WF_vars(RxProgress)
    /\ \A h \in Handles : WF_vars(TxProgress(h))

\* The channel whose Receiver is also used through tx_unaware_recv.
UnawareNext == Next \/ URecvCall \/ URxProgress

UnawareSpec == Init /\ [][UnawareNext]_vars

\* ------------------------------------- chennel_only_channel::Channel
\* The sends begun so far on the Channel.
ChSendsBegun ==
    Len(ch_sent_log)
    + Cardinality({t \in ChThreads : ch_pc[t] \in {"send_lock", "send_push"}})

\* Thread t calls Channel::send(v).
ChSendCall(t, v) ==
    /\ ch_pc[t] = "idle"
    /\ ChSendsBegun < MaxSends
    /\ ch_pc' = [ch_pc EXCEPT ![t] = "send_lock"]
    /\ ch_value' = [ch_value EXCEPT ![t] = v]
    /\ UNCHANGED <<ch_msg_queue, ch_guard, ch_wakeup_flag, ch_sent_log, ch_recv_log,
                   ch_spurious, not_ch>>

\* let mut q_guard = self.msg_queue.lock().unwrap();
ChSendLock(t) ==
    /\ ch_pc[t] = "send_lock"
    /\ ch_guard = {}
    /\ ch_guard' = ch_guard \cup {t}
    /\ ch_pc' = [ch_pc EXCEPT ![t] = "send_push"]
    /\ UNCHANGED <<ch_msg_queue, ch_wakeup_flag, ch_value, ch_sent_log, ch_recv_log,
                   ch_spurious, not_ch>>

\* q_guard.push_back(value);
ChSendPush(t) ==
    /\ ch_pc[t] = "send_push"
    /\ t \in ch_guard
    /\ ch_msg_queue' = push_back(ch_msg_queue, ch_value[t])
    /\ ch_sent_log' = Append(ch_sent_log, ch_value[t])
    /\ ch_pc' = [ch_pc EXCEPT ![t] = "send_notify"]
    /\ UNCHANGED <<ch_guard, ch_wakeup_flag, ch_value, ch_recv_log, ch_spurious, not_ch>>

\* self.recv_wakeup_flag.notify_one(); still under q_guard.  Any one of the
\* blocked threads may be the one that is woken.
ChSendNotify_NoWake(t) ==
    /\ ch_pc[t] = "send_notify"
    /\ t \in ch_guard
    /\ ch_pc' = [ch_pc EXCEPT ![t] = "send_unlock"]
    /\ UNCHANGED <<ch_msg_queue, ch_guard, ch_wakeup_flag, ch_value, ch_sent_log,
                   ch_recv_log, ch_spurious, not_ch>>

ChSendNotify(t) ==
    /\ ch_pc[t] = "send_notify"
    /\ t \in ch_guard
    /\ \/ ch_wakeup_flag = {} /\ ch_wakeup_flag' = ch_wakeup_flag
       \/ \E w \in ch_wakeup_flag : ch_wakeup_flag' = ch_wakeup_flag \ {w}
    /\ ch_pc' = [ch_pc EXCEPT ![t] = "send_unlock"]
    /\ UNCHANGED <<ch_msg_queue, ch_guard, ch_value, ch_sent_log, ch_recv_log,
                   ch_spurious, not_ch>>

\* send returns; q_guard is dropped where the function ends.
ChSendReturn(t) ==
    /\ ch_pc[t] = "send_unlock"
    /\ t \in ch_guard
    /\ ch_guard' = ch_guard \ {t}
    /\ ch_pc' = [ch_pc EXCEPT ![t] = "idle"]
    /\ ch_value' = [ch_value EXCEPT ![t] = "-"]
    /\ UNCHANGED <<ch_msg_queue, ch_wakeup_flag, ch_sent_log, ch_recv_log, ch_spurious,
                   not_ch>>

\* Thread t calls Channel::recv().
ChRecvCall(t) ==
    /\ ch_pc[t] = "idle"
    /\ ch_pc' = [ch_pc EXCEPT ![t] = "recv_lock"]
    /\ UNCHANGED <<ch_msg_queue, ch_guard, ch_wakeup_flag, ch_value, ch_sent_log,
                   ch_recv_log, ch_spurious, not_ch>>

\* let mut q_guard = self.msg_queue.lock().unwrap();
ChRecvLock(t) ==
    /\ ch_pc[t] = "recv_lock"
    /\ ch_guard = {}
    /\ ch_guard' = ch_guard \cup {t}
    /\ ch_pc' = [ch_pc EXCEPT ![t] = "recv_check"]
    /\ UNCHANGED <<ch_msg_queue, ch_wakeup_flag, ch_value, ch_sent_log, ch_recv_log,
                   ch_spurious, not_ch>>

\* match q_guard.pop_front() { Some(msg) => return msg, ... }; q_guard is dropped.
ChRecvPop(t) ==
    /\ ch_pc[t] = "recv_check"
    /\ t \in ch_guard
    /\ ch_msg_queue # <<>>
    /\ ch_msg_queue' = pop_front(ch_msg_queue).rest
    /\ ch_recv_log' = Append(ch_recv_log, pop_front(ch_msg_queue).msg)
    /\ ch_guard' = ch_guard \ {t}
    /\ ch_pc' = [ch_pc EXCEPT ![t] = "idle"]
    /\ UNCHANGED <<ch_wakeup_flag, ch_value, ch_sent_log, ch_spurious, not_ch>>

\* None => q_guard = self.recv_wakeup_flag.wait(q_guard).unwrap(): the guard is
\* released and the thread joins the wait set in one atomic step.
ChRecvWait(t) ==
    /\ ch_pc[t] = "recv_check"
    /\ t \in ch_guard
    /\ ch_msg_queue = <<>>
    /\ ch_guard' = ch_guard \ {t}
    /\ ch_wakeup_flag' = ch_wakeup_flag \cup {t}
    /\ ch_pc' = [ch_pc EXCEPT ![t] = "recv_wait"]
    /\ UNCHANGED <<ch_msg_queue, ch_value, ch_sent_log, ch_recv_log, ch_spurious, not_ch>>

\* wait() returns: the thread has left the wait set and takes the guard again.
ChRecvWake(t) ==
    /\ ch_pc[t] = "recv_wait"
    /\ t \notin ch_wakeup_flag
    /\ ch_guard = {}
    /\ ch_guard' = ch_guard \cup {t}
    /\ ch_pc' = [ch_pc EXCEPT ![t] = "recv_check"]
    /\ UNCHANGED <<ch_msg_queue, ch_wakeup_flag, ch_value, ch_sent_log, ch_recv_log,
                   ch_spurious, not_ch>>

\* Condvar::wait may return without a notification (a spurious wakeup).
ChSpuriousWake(t) ==
    /\ t \in ch_wakeup_flag
    /\ ch_spurious < MaxSpurious
    /\ ch_wakeup_flag' = ch_wakeup_flag \ {t}
    /\ ch_spurious' = ch_spurious + 1
    /\ UNCHANGED <<ch_msg_queue, ch_guard, ch_pc, ch_value, ch_sent_log, ch_recv_log,
                   not_ch>>

\* The steps of a send or recv already begun by thread t on the Channel.
ChProgress(t) ==
    \/ ChSendLock(t) \/ ChSendPush(t) \/ ChSendNotify(t) \/ ChSendReturn(t)
    \/ ChRecvLock(t) \/ ChRecvPop(t) \/ ChRecvWait(t) \/ ChRecvWake(t)

\* The calls a thread that shares the Channel may make.
ChCall(t) == (\E v \in Values : ChSendCall(t, v)) \/ ChRecvCall(t)

ChNext ==
    \/ \E t \in ChThreads : ChCall(t)
    \/ \E t \in ChThreads : ChProgress(t)
    \/ \E t \in ChThreads : ChSpuriousWake(t)

ChSpec == Init /\ [][ChNext]_vars

\* Fair scheduling of the threads that share the Channel.
ChFairSpec ==
    /\ ChSpec
    /\ \A t \in ChThreads : WF_vars(ChProgress(t))

\* ------------------------------------- mut_single_linked_list::LinkedList
it_vars == <<it_kind, it_next, it_yielded, it_done, it_at_creation>>

\* list.append(value); the list is not borrowed by an iterator.
AppendCall(value) ==
    /\ it_kind = "none"
    /\ Len(ll_appended) < MaxAppends
    /\ ll_head' = ll_append(ll_head, value)
    /\ ll_op' = "append"
    /\ ll_ret' = None
    /\ ll_appended' = Append(ll_appended, value)
    /\ UNCHANGED <<ll_popped, it_vars, not_ll>>

\* list.pop_front(); the list is not borrowed by an iterator.
PopFront ==
    /\ it_kind = "none"
    /\ ll_head' = ll_pop_front(ll_head).head
    /\ ll_op' = "pop_front"
    /\ ll_ret' = ll_pop_front(ll_head).ret
    /\ ll_popped' = IF Unpopped = {} THEN ll_popped
                    ELSE ll_popped \cup {Latest(Unpopped)}
    /\ UNCHANGED <<ll_appended, it_vars, not_ll>>

\* list.peek(); the list is not mutably borrowed or moved.
Peek ==
    /\ it_kind \in {"none", "iter"}
    /\ ll_op' = "peek"
    /\ ll_ret' = ll_peek(ll_head)
    /\ UNCHANGED <<ll_head, ll_appended, ll_popped, it_vars, not_ll>>

\* list.iter(): LinkedListIter { next_item: &self.head }.
Iter ==
    /\ it_kind = "none"
    /\ it_kind' = "iter"
    /\ it_next' = ll_head
    /\ it_yielded' = <<>>
    /\ it_done' = FALSE
    /\ it_at_creation' = Elements(ll_head)
    /\ ll_op' = "iter"
    /\ UNCHANGED <<ll_head, ll_ret, ll_appended, ll_popped, not_ll>>

\* list.iter_mut(): LinkedListIterMut { next_item: self.head.as_mut() }.
IterMut ==
    /\ it_kind = "none"
    /\ it_kind' = "iter_mut"
    /\ it_next' = ll_head
    /\ it_yielded' = <<>>
    /\ it_done' = FALSE
    /\ it_at_creation' = Elements(ll_head)
    /\ ll_op' = "iter_mut"
    /\ UNCHANGED <<ll_head, ll_ret, ll_appended, ll_popped, not_ll>>

\* list.into_iter(): LinkedListIntoIter { inner: self }; the list is moved
\* into the iterator, ll_head is from now on the head of inner.
IntoIter ==
    /\ it_kind = "none"
    /\ it_kind' = "into_iter"
    /\ it_next' = LinkNone
    /\ it_yielded' = <<>>
    /\ it_done' = FALSE
    /\ it_at_creation' = Elements(ll_head)
    /\ ll_op' = "into_iter"
    /\ UNCHANGED <<ll_head, ll_ret, ll_appended, ll_popped, not_ll>>

\* LinkedListIter::next: None at the end, else step to the node's next link
\* and yield a reference to its data.
IterNext ==
    /\ it_kind = "iter"
    /\ IF it_next = LinkNone
       THEN /\ ll_ret' = None
            /\ it_done' = TRUE
            /\ UNCHANGED <<it_next, it_yielded>>
       ELSE /\ it_next' = it_next[1].next
            /\ ll_ret' = Some(it_next[1].data)
            /\ it_yielded' = Append(it_yielded, it_next[1].data)
            /\ UNCHANGED it_done
    /\ ll_op' = "next"
    /\ UNCHANGED <<ll_head, ll_appended, ll_popped, it_kind, it_at_creation, not_ll>>

\* LinkedListIterMut::next: if next_item is Some it is taken, _t is dropped,
\* and in either case the function returns None.
IterMutNext ==
    /\ it_kind = "iter_mut"
    /\ it_next' = IF it_next = LinkNone THEN it_next ELSE LinkNone
    /\ ll_ret' = None
    /\ it_done' = TRUE
    /\ ll_op' = "next"
    /\ UNCHANGED <<ll_head, ll_appended, ll_popped, it_kind, it_yielded, it_at_creation,
                   not_ll>>

\* LinkedListIntoIter::next: self.inner.pop_front().
IntoIterNext ==
    /\ it_kind = "into_iter"
    /\ ll_head' = ll_pop_front(ll_head).head
    /\ ll_ret' = ll_pop_front(ll_head).ret
    /\ ll_popped' = IF Unpopped = {} THEN ll_popped
                    ELSE ll_popped \cup {Latest(Unpopped)}
    /\ IF ll_head = LinkNone
       THEN it_done' = TRUE /\ UNCHANGED it_yielded
       ELSE it_yielded' = Append(it_yielded, ll_head[1].data) /\ UNCHANGED it_done
    /\ ll_op' = "next"
    /\ UNCHANGED <<ll_appended, it_kind, it_next, it_at_creation, not_ll>>

\* A LinkedListIter or LinkedListIterMut goes out of scope: the borrow of
\* the list ends.
IterEnd ==
    /\ it_kind \in {"iter", "iter_mut"}
    /\ it_kind' = "none"
    /\ it_next' = LinkNone
    /\ it_yielded' = <<>>
    /\ it_done' = FALSE
    /\ it_at_creation' = <<>>
    /\ ll_op' = "end"
    /\ UNCHANGED <<ll_head, ll_ret, ll_appended, ll_popped, not_ll>>

ListNext ==
    \/ \E value \in Values : AppendCall(value)
    \/ PopFront
    \/ Peek
    \/ Iter
    \/ IterMut
    \/ IntoIter
    \/ IterNext
    \/ IterMutNext
    \/ IntoIterNext
    \/ IterEnd

ListSpec == Init /\ [][ListNext]_vars

\* ================================================================ claims
TxInSend(h) == tx_pc[h] \in {"send_lock", "send_push", "send_notify"}
TxInOp(h) == tx_pc[h] \notin {"unborn", "idle", "dropped"}
RxInOp == rx_pc \notin {"idle", "dropped"}
\* Every Sender handle that was ever made has been dropped, and none can be made.
AllSendersDropped == \A h \in Handles : tx_pc[h] \in {"unborn", "dropped"}
\* This step is a return of recv with Err.
RecvReturnsErr == rx_pc = "recv_check" /\ rx_pc' = "idle" /\ rx_result' = NoMoreSenderErr
\* This step ends a pass of recv's loop.
RecvPass == rx_pc = "recv_check" /\ rx_pc' # "recv_check"

\* C1: the values recv has returned as Ok, in order, are an initial part of the
\* values in the order they were pushed onto msg_queue: nothing is received
\* before a value that was pushed earlier.
C1_Fifo ==
    /\ Len(recv_log) <= Len(sent_log)
    /\ recv_log = SubSeq(sent_log, 1, Len(recv_log))

\* Two handles have pushed different values, the clone first, in sends that
\* overlap, and recv has returned the clone's value.
C1_Witness ==
    /\ tx_pc[1] = "send_notify"
    /\ tx_pc[2] = "send_notify"
    /\ tx_value[1] # tx_value[2]
    /\ sent_log = <<tx_value[2], tx_value[1]>>
    /\ recv_log = <<tx_value[2]>>

\* C2: once every Sender has been dropped and the queue is empty, the receiver
\* is not blocked in wait, every pass of recv's loop returns Err, and once recv
\* has returned Err it never returns Ok.
C2_ExhaustionTerminal ==
    [][ /\ (AllSendersDropped' /\ msg_queue' = <<>>) => Rx \notin recv_wakeup_flag'
        /\ (AllSendersDropped /\ msg_queue = <<>> /\ RecvPass) => RecvReturnsErr
        /\ rx_result = NoMoreSenderErr => rx_result' = NoMoreSenderErr ]_vars

\* recv returned a value, the last Sender was dropped, and recv returned Err.
C2_Witness ==
    /\ AllSendersDropped
    /\ msg_queue = <<>>
    /\ Len(recv_log) >= 1
    /\ rx_pc = "idle"
    /\ rx_result = NoMoreSenderErr

\* C3: under fair scheduling, a receiver that is in wait() while msg_queue holds
\* a value gets to return Ok from recv.
C3_NoMissedWakeupOnSend ==
    (rx_pc = "recv_wait" /\ msg_queue # <<>>) ~> (rx_pc = "idle" /\ rx_result.tag = "Ok")

\* A send has pushed its value while the receiver is blocked, and has not yet notified.
C3_Witness ==
    /\ Rx \in recv_wakeup_flag
    /\ msg_queue # <<>>
    /\ \E h \in Handles : tx_pc[h] = "send_notify"

\* C4: under fair scheduling, a receiver that is in wait() on an empty queue
\* when sender_cnt has gone to 0 gets to return Err(NoMoreSenderErr) from recv.
C4_LastDropReleasesRecv ==
    (rx_pc = "recv_wait" /\ msg_queue = <<>> /\ sender_cnt = 0)
        ~> (rx_pc = "idle" /\ rx_result = NoMoreSenderErr)

\* The last Sender's drop has decremented sender_cnt to 0 while the receiver is
\* blocked, and has not yet unlocked or notified.
C4_Witness ==
    /\ Rx \in recv_wakeup_flag
    /\ msg_queue = <<>>
    /\ sender_cnt = 0
    /\ \E h \in Handles : tx_pc[h] = "drop_unlock"

\* C5: a send called after the Receiver was dropped returns
\* Err(NoMoreReceiverErr(v)) with v the value passed in.
C5_ClosedConsumerRejection ==
    [][ \A h \in Handles :
          (h \in tx_after_close /\ tx_pc[h] = "send_notify" /\ tx_pc'[h] = "idle")
              => tx_result' = NoMoreReceiverErr(tx_value[h]) ]_vars

\* The Sender handles that sender_cnt should count.
HandlesAccounted ==
    Cardinality({h \in Handles :
                    tx_pc[h] \notin {"unborn", "drop_unlock", "drop_notify", "dropped"}})
    + Cardinality({h \in Handles : tx_pc[h] = "clone_ret"})

\* C6: sender_cnt is the number of Sender handles made (by channel() or by a
\* clone's increment) and not yet dropped (a drop counts from its decrement),
\* and a drop never decrements a sender_cnt of 0.
C6_SenderCountAccounting ==
    /\ sender_cnt = HandlesAccounted
    /\ sender_cnt >= 0
    /\ \A h \in Handles : tx_pc[h] = "drop_dec" => sender_cnt > 0

\* A clone was made and the original dropped: one handle is left and counted.
C6_Witness ==
    /\ tx_pc[1] = "dropped"
    /\ tx_pc[2] = "idle"
    /\ sender_cnt = 1

\* The Sender handles that exist and have not begun their drop.
HandlesLeft == {h \in Handles : tx_pc[h] \in {"idle", "send_lock", "send_push", "send_notify"}}

\* C7: when all but one of the handles made have been dropped and no clone or
\* drop is under way, sender_cnt is 1; recv returns Err only when no handle is
\* left that has not begun its drop; and with every handle dropped and the queue
\* empty every pass of recv's loop returns Err.
C7_DuplicationCorrectness ==
    [][ /\ (Cardinality(HandlesLeft) = 1 /\ \A h \in Handles \ HandlesLeft :
                tx_pc[h] \in {"unborn", "dropped"}) => sender_cnt = 1
        /\ RecvReturnsErr => HandlesLeft = {}
        /\ (AllSendersDropped /\ msg_queue = <<>> /\ RecvPass)
              => (rx_pc' = "idle" /\ rx_result' = NoMoreSenderErr) ]_vars

\* One clone made, one of the two handles dropped, and a recv on the empty queue
\* is blocked rather than failed.
C7_Witness ==
    /\ Cardinality({h \in Handles : tx_pc[h] = "dropped"}) = 1
    /\ Cardinality({h \in Handles : tx_pc[h] = "idle"}) = MaxHandles - 1
    /\ msg_queue = <<>>
    /\ Rx \in recv_wakeup_flag

\* C8: recv returns Err only from a state where, under the guard, msg_queue is
\* empty and sender_cnt is 0; and by then every value pushed has been returned.
C8_ErrOnlyOnExhaustion ==
    [][ RecvReturnsErr =>
          /\ inner_mut_data = {Rx}
          /\ msg_queue = <<>>
          /\ sender_cnt = 0
          /\ recv_log = sent_log ]_vars

\* recv failed after a spurious wakeup, every pushed value having been received.
C8_Witness ==
    /\ rx_result = NoMoreSenderErr
    /\ spurious >= 1
    /\ Len(sent_log) >= 1
    /\ recv_log = sent_log

\* C9: under fair scheduling every send that has been called returns, and no
\* Sender thread is ever in the wait set of recv_wakeup_flag.
C9_SendNeverBlocks ==
    /\ \A h \in Handles : TxInSend(h) ~> (tx_pc[h] = "idle")
    /\ [](recv_wakeup_flag \subseteq {Rx})

\* A send waits for the mutex, held by another sender, while the receiver is blocked.
C9_Witness ==
    \E h \in Handles :
        /\ tx_pc[h] = "send_lock"
        /\ inner_mut_data # {}
        /\ inner_mut_data \subseteq Handles
        /\ Rx \in recv_wakeup_flag

\* A step of some operation already begun, by any thread.
ProgressStep == RxProgress \/ \E h \in Handles : TxProgress(h)

\* C10: whenever some thread is inside an operation and no thread inside an
\* operation can take a step, the receiver alone is inside one, blocked in wait
\* on an empty queue, and a live Sender handle is idle (free to send or drop).
C10_DeadlockFreedom ==
    ((RxInOp \/ \E h \in Handles : TxInOp(h)) /\ ~ENABLED ProgressStep)
        => /\ \A h \in Handles : ~TxInOp(h)
           /\ Rx \in recv_wakeup_flag
           /\ msg_queue = <<>>
           /\ sender_cnt > 0
           /\ \E h \in Handles : tx_pc[h] = "idle"

\* The receiver is suspended and nothing inside an operation can move.
C10_Witness ==
    /\ Rx \in recv_wakeup_flag
    /\ ~ENABLED ProgressStep
    /\ Cardinality({h \in Handles : tx_pc[h] = "idle"}) = 2

\* C11: once sender_cnt is 0 it is 0 in every later state.
C11_CountStaysZero == [][sender_cnt = 0 => sender_cnt' = 0]_vars

\* sender_cnt is 0, every handle is dropped, and recv has run since and failed.
C11_Witness ==
    /\ sender_cnt = 0
    /\ AllSendersDropped
    /\ tx_pc[2] = "dropped"
    /\ rx_pc = "idle"
    /\ rx_result = NoMoreSenderErr

\* C12: no step of a send that was called after the Receiver was dropped
\* changes msg_queue.
C12_ClosedSendLeavesQueue ==
    [][ \A h \in Handles :
          (h \in tx_after_close /\ tx_pc'[h] # tx_pc[h]) => msg_queue' = msg_queue ]_vars

\* C13: receiver_live is true exactly while the Receiver has not been dropped.
C13_ReceiverLiveTracksReceiver == receiver_live = (rx_pc # "dropped")

\* The step of thread t leaves the place `from` of its operation.
TxStep(h, from) == tx_pc[h] = from /\ tx_pc'[h] # from
RxStep(from) == rx_pc = from /\ rx_pc' # from
\* The places from which a step reads or writes msg_queue or sender_cnt.
TxAccess == {"send_push", "clone_inc", "drop_dec", "drop_unlock"}

\* C14: at most one thread holds the mutex; every step that reads or writes
\* msg_queue or sender_cnt is taken by the thread that holds it, and nothing
\* else changes them; a receiver in the condvar's wait set does not hold it.
C14_LockDiscipline ==
    [][ /\ Cardinality(inner_mut_data) <= 1
        /\ Cardinality(inner_mut_data') <= 1
        /\ \A h \in Handles :
              (tx_pc[h] \in TxAccess /\ tx_pc'[h] # tx_pc[h]) => inner_mut_data = {h}
        /\ RxStep("recv_check") => inner_mut_data = {Rx}
        /\ (msg_queue' # msg_queue \/ sender_cnt' # sender_cnt) =>
              \/ RxStep("recv_check") /\ inner_mut_data = {Rx}
              \/ \E h \in Handles : /\ tx_pc[h] \in TxAccess
                                    /\ tx_pc'[h] # tx_pc[h]
                                    /\ inner_mut_data = {h}
        /\ Rx \in recv_wakeup_flag' => Rx \notin inner_mut_data' ]_vars

\* A sender is about to push under the guard while the receiver is suspended
\* in wait and another thread is waiting for the mutex.
C14_Witness ==
    /\ Rx \in recv_wakeup_flag
    /\ \E h \in Handles : tx_pc[h] = "send_push" /\ inner_mut_data = {h}
    /\ \E h \in Handles : tx_pc[h] \in {"send_lock", "clone_lock", "drop_lock"}

\* C15: the push of a send appends the sent value at the back and leaves
\* sender_cnt alone, and its other steps change neither; a clone adds 1 to
\* sender_cnt, a drop takes 1 from it, and neither changes msg_queue; a recv
\* that returns Ok took exactly the front element and left sender_cnt alone; a
\* recv that returns Err changed nothing; receiver_live never changes.
C15_Frame ==
    [][ /\ \A h \in Handles :
            /\ TxStep(h, "send_push") =>
                  msg_queue' = Append(msg_queue, tx_value[h]) /\ sender_cnt' = sender_cnt
            /\ (TxStep(h, "send_lock") \/ TxStep(h, "send_notify")) =>
                  msg_queue' = msg_queue /\ sender_cnt' = sender_cnt
            /\ TxStep(h, "clone_inc") =>
                  msg_queue' = msg_queue /\ sender_cnt' = sender_cnt + 1
            /\ (TxStep(h, "clone_lock") \/ TxStep(h, "clone_ret")) =>
                  msg_queue' = msg_queue /\ sender_cnt' = sender_cnt
            /\ TxStep(h, "drop_dec") =>
                  msg_queue' = msg_queue /\ sender_cnt' = sender_cnt - 1
            /\ (TxStep(h, "drop_lock") \/ TxStep(h, "drop_unlock") \/ TxStep(h, "drop_notify")) =>
                  msg_queue' = msg_queue /\ sender_cnt' = sender_cnt
        /\ (RxStep("recv_check") /\ rx_pc' = "idle" /\ rx_result'.tag = "Ok") =>
              /\ msg_queue = <<rx_result'.val>> \o msg_queue'
              /\ sender_cnt' = sender_cnt
        /\ RecvReturnsErr => msg_queue' = msg_queue /\ sender_cnt' = sender_cnt
        /\ (RxStep("recv_lock") \/ RxStep("recv_wait")) =>
              msg_queue' = msg_queue /\ sender_cnt' = sender_cnt
        /\ receiver_live' = receiver_live ]_vars

\* A send, a clone, a drop, a recv that returned Ok and a recv that returned
\* Err have all happened, with a second value still in the queue when recv
\* took the first.
C15_Witness ==
    /\ Len(sent_log) = 2
    /\ sent_log[1] # sent_log[2]
    /\ recv_log = sent_log
    /\ tx_pc[1] = "dropped"
    /\ tx_pc[2] = "dropped"
    /\ rx_pc = "idle"
    /\ rx_result = NoMoreSenderErr

\* C16: the values recv has returned as Ok followed by the contents of
\* msg_queue are the values pushed, in push order.
C16_MessageConservation == recv_log \o msg_queue = sent_log

\* One value has been received and a different one is still queued.
C16_Witness ==
    /\ Len(recv_log) = 1
    /\ Len(msg_queue) = 1
    /\ recv_log[1] # msg_queue[1]

URecvPcs == {"urecv_lock", "urecv_check", "urecv_wait"}

\* C17: a pass of tx_unaware_recv's loop over a non-empty queue returns the
\* front value and removes it; a tx_unaware_recv that is under way when every
\* Sender has been dropped and the queue is empty stays under way: it does
\* not return.
C17_UnawareRecvHangs ==
    [][ /\ (RxStep("urecv_check") /\ msg_queue # <<>>) =>
              /\ rx_pc' = "idle"
              /\ rx_result' = Ok(Head(msg_queue))
              /\ msg_queue' = Tail(msg_queue)
        /\ (rx_pc \in URecvPcs /\ AllSendersDropped /\ msg_queue = <<>>) =>
              rx_pc' \in URecvPcs ]_vars

\* tx_unaware_recv returned a value earlier and is now blocked in wait with
\* every Sender dropped, where recv would have returned Err.
C17_Witness ==
    /\ rx_pc = "urecv_wait"
    /\ Rx \in recv_wakeup_flag
    /\ AllSendersDropped
    /\ msg_queue = <<>>
    /\ Len(recv_log) >= 1
    /\ rx_result.tag = "Ok"

\* The values Channel::recv has returned are the first values pushed, in push
\* order, and with the queue's contents they are all the values pushed: none
\* is returned twice, lost or made up.
ChInOrderOnce ==
    /\ Len(ch_recv_log) <= Len(ch_sent_log)
    /\ ch_recv_log = SubSeq(ch_sent_log, 1, Len(ch_recv_log))
    /\ ch_recv_log \o ch_msg_queue = ch_sent_log

\* A step in which Channel::recv returns is one that takes a value from a
\* queue that is not empty.
ChReturnsOnlyWithValue ==
    \A t \in ChThreads :
        (ch_pc[t] \in {"recv_lock", "recv_check", "recv_wait"} /\ ch_pc'[t] = "idle")
            => ch_msg_queue # <<>> /\ ch_msg_queue' = Tail(ch_msg_queue)

\* Thread t is blocked in recv's wait() at the moment a send completes: the
\* sender has pushed and notified and is about to return.
ChWaitingAsSendCompletes(t) ==
    /\ ch_pc[t] = "recv_wait"
    /\ \E s \in ChThreads : ch_pc[s] = "send_unlock"

\* C18 as stated: values are returned in push order and at most once, recv
\* returns only by taking a value, and under fair scheduling every recv that
\* is waiting when a send completes gets to return.
C18_EveryWaiterReturns ==
    /\ []ChInOrderOnce
    /\ [][ChReturnsOnlyWithValue]_vars
    /\ \A t \in ChThreads : ChWaitingAsSendCompletes(t) ~> (ch_pc[t] = "idle")

\* C18: values are returned in push order and at most once, recv returns only
\* by taking a value, and under fair scheduling a recv that is waiting when a
\* send completes gets to return unless other recv calls empty the queue
\* first: the queue does not stay non-empty while a recv waits.
C18_NoMissedWakeup ==
    /\ []ChInOrderOnce
    /\ [][ChReturnsOnlyWithValue]_vars
    /\ \A t \in ChThreads :
          ChWaitingAsSendCompletes(t) ~> (ch_pc[t] = "idle" \/ ch_msg_queue = <<>>)

\* A send has pushed and is about to notify, under the guard, while both a
\* blocked recv and an earlier received value exist.
C18_Witness ==
    /\ \E t \in ChThreads : ch_pc[t] = "send_notify" /\ t \in ch_guard
    /\ \E t \in ChThreads : ch_pc[t] = "recv_wait" /\ t \in ch_wakeup_flag
    /\ ch_msg_queue # <<>>
    /\ Len(ch_recv_log) >= 1

\* The values at a set of positions of log, latest position first.
RECURSIVE LatestFirst(_, _)
LatestFirst(log, idx) ==
    IF idx = {} THEN <<>>
    ELSE <<log[Latest(idx)]>> \o LatestFirst(log, idx \ {Latest(idx)})

\* The list holds the values appended and not yet popped, latest first.
ListIsStack == Elements(ll_head) = LatestFirst(ll_appended, Unpopped)

\* pop_front returns and removes the latest value appended and not yet popped,
\* or returns None and leaves the list empty when there is none.
PopFrontIsLifo ==
    ll_op' = "pop_front" =>
        IF Unpopped = {}
        THEN ll_ret' = None /\ ll_head' = LinkNone
        ELSE /\ ll_ret' = Some(ll_appended[Latest(Unpopped)])
             /\ Elements(ll_head') = Tail(Elements(ll_head))

\* peek returns what pop_front would return and leaves the list as it is.
PeekIsNextPop ==
    ll_op' = "peek" =>
        /\ ll_ret' = ll_pop_front(ll_head).ret
        /\ ll_ret' = (IF Unpopped = {} THEN None
                      ELSE Some(ll_appended[Latest(Unpopped)]))
        /\ ll_head' = ll_head

\* C19: after any sequence of append and pop_front calls from an empty list,
\* the list holds the unpopped values latest first, pop_front returns and
\* removes the latest unpopped value (None on an empty list, which stays
\* empty), and peek returns what pop_front would return, changing nothing.
C19_ListIsStack ==
    /\ []ListIsStack
    /\ [][PopFrontIsLifo]_vars
    /\ [][PeekIsNextPop]_vars

\* pop_front has just returned the later of two values appended, the earlier
\* one still in the list, and they differ.
C19_Witness ==
    /\ ll_op = "pop_front"
    /\ ll_ret = Some("b")
    /\ Elements(ll_head) = <<"a">>
    /\ Len(ll_appended) >= 2

\* The iterator alive has so far yielded the first elements the list held
\* when it was made, head first, and has returned None only after all of them.
YieldsEveryElement ==
    /\ Len(it_yielded) <= Len(it_at_creation)
    /\ it_yielded = SubSeq(it_at_creation, 1, Len(it_yielded))
    /\ it_done => it_yielded = it_at_creation

\* C20: an iterator made by iter(), iter_mut() or into_iter() from a list of
\* n elements yields the n elements in head-to-tail order and then None.
C20_IteratorsVisitEveryElement ==
    it_kind \in {"iter", "iter_mut", "into_iter"} => YieldsEveryElement
====
